---- MODULE Spec2Model ----
(***************************************************************************)
(* The DOS service-call interface of src/src/interrupts/mod.rs.            *)
(*                                                                         *)
(* Every wrapper is one action: it binds its parameters to input           *)
(* registers, issues INT 21h with the function selector in AH, and turns   *)
(* the output registers into its return value.  The state is the state of  *)
(* the single running program (pc), the part of the operating system the   *)
(* wrappers talk to (default drive, keyboard buffer, registered disk        *)
(* transfer address), and the record of the last call: its name and         *)
(* arguments, the registers at the interrupt, the registers after it, and   *)
(* the value handed back to the caller.                                     *)
(***************************************************************************)
EXTENDS Integers, Sequences, FiniteSets, TLC

\* ------------------------------------------------------------------ bounds
\* Number of buffers (strings, FCBs, DTAs) the calling program owns.
NumBufs == 2
\* Capacity of the keyboard type-ahead buffer of the model.
MaxKbd == 1

\* ------------------------------------------------------------ value domains
\* u8: every 8-bit register value.
Byte == 0..255
\* Representative 8-bit values for registers whose content no claim ranges over.
ByteSamples == {0, 1, 65, 255}
\* Representative contents of BX, CX, DX: pairwise different in each triple,
\* with values below and above the 8-bit range in every position.
WordTriples == { << 513, 7, 65535 >>, << 65535, 513, 7 >> }
\* Keys the user may type: a letter and the carriage return.
Keys == {65, 13}

\* Addresses.  The caller's buffers live at 1..NumBufs; CalleeSlot is the
\* place of a by-value parameter inside the callee's own frame, which dies
\* when the wrapper returns.
CallerBufs == 1..NumBufs
CalleeSlot == NumBufs + 1

\* ------------------------------------------------------------- return values
Unit == [tag |-> "unit"]
NoReturn == [tag |-> "noreturn"]
None == [tag |-> "None"]
Some(v) == [tag |-> "Some", val |-> v]
U8(v) == [tag |-> "u8", val |-> v]
Pair(a, b) == [tag |-> "pair", fst |-> a, snd |-> b]
Drive(d) == [tag |-> "DriveLetter", val |-> d]
AllocInfo(s, f, z, n) ==
    [tag |-> "DriveAllocationInfo", sector_num |-> s, fat_id_addr |-> f,
     sector_size |-> z, number_of_clusters |-> n]

\* --------------------------------------------------------------- DriveLetter
\* enum DriveLetter { A = 0, B, ..., Z, Unknown } in declaration order.
DriveLetter ==
    << "A", "B", "C", "D", "E", "F", "G", "H", "I", "J", "K", "L", "M",
       "N", "O", "P", "Q", "R", "S", "T", "U", "V", "W", "X", "Y", "Z",
       "Unknown" >>

DriveLetters == { DriveLetter[i] : i \in 1..Len(DriveLetter) }

\* Faulty variant: drive codes counted from 1 (A = 1), as function 1Ch does.
OneBasedAsU8(d) == CHOOSE i \in 1..Len(DriveLetter) : DriveLetter[i] = d

\* `drive_code as u8`: the discriminant, A = 0 and each later variant one more.
DriveLetterAsU8(d) ==
    (CHOOSE i \in 1..Len(DriveLetter) : DriveLetter[i] = d) - 1

\* Faulty variant: the last letter arm missing (25 falls to the wildcard).
DriveLetterFromShortRange(value) ==
    IF value < 25 THEN DriveLetter[value + 1] ELSE "Unknown"

\* impl From<u8> for DriveLetter: the match, arm by arm.
DriveLetterFrom(value) ==
    CASE value = 0 -> "A"
      [] value = 1 -> "B"
      [] value = 2 -> "C"
      [] value = 3 -> "D"
      [] value = 4 -> "E"
      [] value = 5 -> "F"
      [] value = 6 -> "G"
      [] value = 7 -> "H"
      [] value = 8 -> "I"
      [] value = 9 -> "J"
      [] value = 10 -> "K"
      [] value = 11 -> "L"
      [] value = 12 -> "M"
      [] value = 13 -> "N"
      [] value = 14 -> "O"
      [] value = 15 -> "P"
      [] value = 16 -> "Q"
      [] value = 17 -> "R"
      [] value = 18 -> "S"
      [] value = 19 -> "T"
      [] value = 20 -> "U"
      [] value = 21 -> "V"
      [] value = 22 -> "W"
      [] value = 23 -> "X"
      [] value = 24 -> "Y"
      [] value = 25 -> "Z"
      [] OTHER -> "Unknown"

\* --------------------------------------------------------------- InputFunction
\* enum InputFunction with its explicit discriminants.
InputFunctions ==
    { "CharacterInput", "DirectConsoleIO", "DirectConsoleInputWithoutEcho",
      "CharacterInputWithoutEcho", "BufferedKeyboardInput" }

InputFunctionAsU8(inp) ==
    CASE inp = "CharacterInput" -> 1
      [] inp = "DirectConsoleIO" -> 6
      [] inp = "DirectConsoleInputWithoutEcho" -> 7
      [] inp = "CharacterInputWithoutEcho" -> 8
      [] inp = "BufferedKeyboardInput" -> 10

\* ------------------------------------------------------- function selectors
\* The value each wrapper binds to AH.
FcbCalls ==
    { "open_file", "close_file", "find_first_file", "find_next_file",
      "delete_file", "sequential_read", "sequential_write",
      "create_or_truncate_file", "rename_file" }

TerminateCalls ==
    { "program_terminate", "terminate_and_stay_resident",
      "terminate_with_return_code" }

Selector(fn) ==
    CASE fn = "program_terminate" -> 0
      [] fn = "character_input" -> 1
      [] fn = "character_output" -> 2
      [] fn = "direct_console_io" -> 6
      [] fn = "direct_console_input_without_echo" -> 7
      [] fn = "console_input_without_echo" -> 8
      [] fn = "display_string" -> 9
      [] fn = "buffered_keyboard_input" -> 10
      [] fn = "get_input_status" -> 11
      [] fn = "flush_input_buffer_and_input" -> 12
      [] fn = "set_default_drive" -> 14
      [] fn = "open_file" -> 15
      [] fn = "close_file" -> 16
      [] fn = "find_first_file" -> 17
      [] fn = "find_next_file" -> 18
      [] fn = "delete_file" -> 19
      [] fn = "sequential_read" -> 20
      [] fn = "sequential_write" -> 21
      [] fn = "create_or_truncate_file" -> 22
      [] fn = "rename_file" -> 23
      [] fn = "get_default_drive" -> 25
      [] fn = "set_disk_transfer_address" -> 26
      [] fn = "get_allocation_info_for_default_drive" -> 27
      [] fn = "get_allocation_info_for_specified_drive" -> 28
      [] fn = "terminate_and_stay_resident" -> 49
      [] fn = "terminate_with_return_code" -> 76

\* ------------------------------------------------------------ the service
\* What INT 21h does with a request, as the wrappers' documentation states
\* it.  os is the operating-system state [drive, kbd, dta]; r holds the
\* registers at the interrupt; B is the domain of the bytes the service
\* leaves unconstrained.  The result is the set of possible outcomes; an
\* empty set means the service is still waiting (for a key).  A register
\* appears in out when the service defines it or a wrapper reads it back.
NoRegs == << >>

Returned(os, outs) == { [returns |-> TRUE, os |-> os, out |-> o] : o \in outs }

\* What is left of the keys q once those up to and including the first
\* carriage return have been read.
RECURSIVE AfterReturnKey(_)
AfterReturnKey(q) ==
    IF q = << >> THEN << >>
    ELSE IF Head(q) = 13 THEN Tail(q) ELSE AfterReturnKey(Tail(q))

HasReturnKey(q) == \E i \in 1..Len(q) : q[i] = 13

Int21(ah, r, os, B) ==
    CASE ah \in {0, 49, 76} ->
            \* terminate: control goes to the terminate handler
            { [returns |-> FALSE, os |-> os, out |-> NoRegs] }
      [] ah \in {1, 7, 8} ->
            \* read a character, waiting until one is available
            IF os.kbd = << >> THEN {}
            ELSE Returned([os EXCEPT !.kbd = Tail(os.kbd)],
                          { [al |-> Head(os.kbd)] })
      [] ah = 2 ->
            \* write the character in DL
            Returned(os, { [dl |-> b] : b \in B })
      [] ah = 6 ->
            \* DL = FFh: console input request, ZF set when nothing is ready;
            \* any other DL: write that character
            IF r.dl = 255
            THEN IF os.kbd = << >>
                 THEN Returned(os, { [al |-> 0, zf |-> 1] })
                 ELSE Returned([os EXCEPT !.kbd = Tail(os.kbd)],
                               { [al |-> Head(os.kbd), zf |-> 0] })
            ELSE Returned(os, { [al |-> r.dl, zf |-> z] : z \in {0, 1} })
      [] ah = 9 ->
            \* write the $-terminated string at DX
            Returned(os, { NoRegs })
      [] ah = 10 ->
            \* read a line, up to and including the carriage return
            IF HasReturnKey(os.kbd)
            THEN Returned([os EXCEPT !.kbd = AfterReturnKey(os.kbd)],
                          { NoRegs })
            ELSE {}
      [] ah = 11 ->
            \* input status: true flag while a character is waiting
            Returned(os, { [al |-> IF os.kbd = << >> THEN 0 ELSE 255] })
      [] ah = 12 ->
            \* clear the input buffer, then run the input function in AL:
            \* the character it reads, if any, arrives after the flush
            Returned([os EXCEPT !.kbd = << >>], { [al |-> b] : b \in B })
      [] ah = 14 ->
            \* make DL the default drive, report the number of logical drives
            Returned([os EXCEPT !.drive = r.dl], { [al |-> n] : n \in {5, 26} })
      [] ah \in 15..23 ->
            \* FCB file operations on the block at DX
            Returned(os, { NoRegs })
      [] ah = 25 ->
            \* report the default drive; DL is left as it was
            Returned(os, { [al |-> os.drive, dl |-> b] : b \in B })
      [] ah = 26 ->
            \* register DX as the disk transfer address
            Returned([os EXCEPT !.dta = << r.dx >>], { NoRegs })
      [] ah \in {27, 28} ->
            \* allocation information, AL = FFh for an invalid drive
            Returned(os, { [al |-> a, bx |-> w[1], cx |-> w[2], dx |-> w[3]] :
                           a \in B, w \in WordTriples })
      [] OTHER ->
            Returned(os, { [al |-> b, dl |-> c] : b \in B, c \in B })

\* -------------------------------------------------------------------- state
VARIABLES
    pc,             \* where control is: "ready" in the caller between two
                    \* calls, "returned" when a wrapper has just handed its
                    \* result back, "terminated" once control has left
    default_drive,  \* the drive code the operating system holds as default
    kbd,            \* keys typed and not yet read
    os_dta,         \* << >>, or <<address>> registered as transfer address
    call,           \* the last wrapper called: [name, args]
    in_regs,        \* registers the wrapper bound, at the interrupt
    out_regs,       \* registers after the interrupt (and the asm block)
    ret,            \* what the wrapper returned to its caller
    last_set,       \* <<X>> since set_default_drive(X), << >> before any
    queries         \* results of the last two get_default_drive() calls
                    \* made since the last set_default_drive, oldest first

vars ==
    << pc, default_drive, kbd, os_dta, call, in_regs, out_regs, ret,
       last_set, queries >>

OS == [drive |-> default_drive, kbd |-> kbd, dta |-> os_dta]

\* One wrapper call: bind the registers r, issue the interrupt, run what
\* the asm block holds after it (post: the registers it overwrites), and
\* return result if control comes back.
Issue(name, args, r, B, post, result) ==
    /\ pc = "ready"
    /\ \E o \in Int21(r.ah, r, OS, B) : \E p \in post :
          /\ call' = [name |-> name, args |-> args]
          /\ in_regs' = r
          /\ default_drive' = o.os.drive
          /\ kbd' = o.os.kbd
          /\ os_dta' = o.os.dta
          /\ out_regs' = p @@ o.out
          /\ pc' = IF o.returns THEN "returned" ELSE "terminated"
          /\ ret' = IF o.returns THEN result ELSE NoReturn

NoPost == { NoRegs }

NoCall == [name |-> "none", args |-> << >>]

Init ==
    /\ pc = "ready"
    /\ default_drive \in 0..25
    /\ kbd = << >>
    /\ os_dta = << >>
    /\ call = NoCall
    /\ in_regs = NoRegs
    /\ out_regs = NoRegs
    /\ ret = Unit
    /\ last_set = << >>
    /\ queries = << >>

\* The caller takes the returned value and goes on to its next statement;
\* the record of the finished call is dropped.
Resume ==
    /\ pc = "returned"
    /\ pc' = "ready"
    /\ call' = NoCall
    /\ in_regs' = NoRegs
    /\ out_regs' = NoRegs
    /\ ret' = Unit
    /\ UNCHANGED << default_drive, kbd, os_dta, last_set, queries >>

\* The user types a key (the environment, not the program).
KeyPress ==
    /\ Len(kbd) < MaxKbd
    /\ \E k \in Keys : kbd' = Append(kbd, k)
    /\ UNCHANGED << pc, default_drive, os_dta, call, in_regs, out_regs, ret,
                    last_set, queries >>

\* ---------------------------------------------------------- drive wrappers
\* pub fn set_default_drive(drive_code: DriveLetter)
set_default_drive_in(drive_code) ==
    [ah |-> Selector("set_default_drive"), dl |-> DriveLetterAsU8(drive_code)]

set_default_drive_ret(regs) == Unit

set_default_drive ==
    \E drive_code \in DriveLetters :
        /\ Issue("set_default_drive", << drive_code >>,
                 set_default_drive_in(drive_code), ByteSamples, NoPost,
                 set_default_drive_ret(out_regs'))
        /\ last_set' = << drive_code >>
        /\ queries' = << >>

\* pub fn get_default_drive() -> DriveLetter
get_default_drive_in == [ah |-> Selector("get_default_drive")]

\* Faulty variant: the result bound to DL, as character_output binds it.
get_default_drive_ret_dl(regs) == Drive(DriveLetterFrom(regs.dl))

get_default_drive_ret(regs) == Drive(DriveLetterFrom(regs.al))

get_default_drive ==
    /\ Issue("get_default_drive", << >>, get_default_drive_in, ByteSamples,
             NoPost, get_default_drive_ret(out_regs'))
    /\ queries' = IF queries = << >> THEN << ret'.val >>
                  ELSE << queries[Len(queries)], ret'.val >>
    /\ UNCHANGED last_set

\* ------------------------------------------------------ character wrappers
\* What has been observed of the default drive; only set_default_drive and
\* get_default_drive add to it.
DriveObs == << last_set, queries >>

\* pub fn character_input(ch: u8)
character_input_in(ch) == [ah |-> Selector("character_input"), dl |-> ch]

character_input_ret(regs) == Unit

character_input ==
    \E ch \in ByteSamples :
        /\ Issue("character_input", << ch >>, character_input_in(ch),
                 ByteSamples, NoPost, character_input_ret(out_regs'))
        /\ UNCHANGED DriveObs

\* pub fn character_output() -> u8: DL is bound as an output only, so what
\* it holds at the interrupt is whatever the register held before.
character_output_in(dl) == [ah |-> Selector("character_output"), dl |-> dl]

character_output_ret(regs) == U8(regs.dl)

character_output ==
    \E dl \in ByteSamples :
        /\ Issue("character_output", << >>, character_output_in(dl),
                 ByteSamples, NoPost, character_output_ret(out_regs'))
        /\ UNCHANGED DriveObs

\* pub fn direct_console_io(ch: u8) -> (u8, bool).  After the interrupt the
\* asm block runs `mov bl, zf`: x86 has no operand naming a flag, so zf is
\* a symbol and BL is loaded with the byte stored there, whatever it is.
direct_console_io_in(ch) == [ah |-> Selector("direct_console_io"), dl |-> ch]

direct_console_io_post(B) == { [bl |-> b] : b \in B }

direct_console_io_ret(regs) == Pair(regs.al, regs.bl # 0)

direct_console_io ==
    \E ch \in ByteSamples :
        /\ Issue("direct_console_io", << ch >>, direct_console_io_in(ch),
                 ByteSamples, direct_console_io_post(ByteSamples),
                 direct_console_io_ret(out_regs'))
        /\ UNCHANGED DriveObs

\* pub fn direct_console_input_without_echo() -> u8
direct_console_input_without_echo_ret(regs) == U8(regs.al)

direct_console_input_without_echo ==
    /\ Issue("direct_console_input_without_echo", << >>,
             [ah |-> Selector("direct_console_input_without_echo")],
             ByteSamples, NoPost,
             direct_console_input_without_echo_ret(out_regs'))
    /\ UNCHANGED DriveObs

\* pub fn console_input_without_echo() -> u8
console_input_without_echo_ret(regs) == U8(regs.al)

console_input_without_echo ==
    /\ Issue("console_input_without_echo", << >>,
             [ah |-> Selector("console_input_without_echo")],
             ByteSamples, NoPost,
             console_input_without_echo_ret(out_regs'))
    /\ UNCHANGED DriveObs

\* pub fn get_input_status() -> u8
get_input_status_ret(regs) == U8(regs.al)

\* Faulty variant: selector 08h (console_input_without_echo), which reads.
get_input_status_in_08 == [ah |-> 8]

get_input_status_in == [ah |-> Selector("get_input_status")]

get_input_status ==
    /\ Issue("get_input_status", << >>,
             get_input_status_in,
             ByteSamples, NoPost,
             get_input_status_ret(out_regs'))
    /\ UNCHANGED DriveObs

\* pub fn flush_input_buffer_and_input(inp: InputFunction) -> Option<u8>
flush_input_buffer_and_input_in(inp) ==
    [ah |-> Selector("flush_input_buffer_and_input"),
     al |-> InputFunctionAsU8(inp)]

\* Faulty variant: the test made against the first selector of the enum.
flush_input_buffer_and_input_ret_first(inp, regs) ==
    IF inp = "CharacterInput" THEN None ELSE Some(regs.al)

flush_input_buffer_and_input_ret(inp, regs) ==
    IF inp = "BufferedKeyboardInput" THEN None ELSE Some(regs.al)

\* B: the bytes the input function may leave in AL.
FlushCall(inp, B) ==
    Issue("flush_input_buffer_and_input", << inp >>,
          flush_input_buffer_and_input_in(inp), B, NoPost,
          flush_input_buffer_and_input_ret(inp, out_regs'))

flush_input_buffer_and_input ==
    \E inp \in InputFunctions :
        /\ FlushCall(inp, ByteSamples)
        /\ UNCHANGED DriveObs

\* -------------------------------------------------- pointer-passing wrappers
\* A reference parameter (&str, &[u8; 36]): as_ptr() is the address of the
\* caller's buffer.
RefPlace(buf) == buf

\* A by-value parameter (dta: [u8; 43]): the array is the callee's own local.
\* Its place is the callee's slot, or the caller's array itself where the
\* build passes the array indirectly and elides the copy.
ValuePlaces(buf) == { buf, CalleeSlot }

PointerArg(fn, place) == [ah |-> Selector(fn), dx |-> place]

PointerRet(regs) == Unit

PointerCall(fn, buf) ==
    Issue(fn, << buf >>, PointerArg(fn, RefPlace(buf)), ByteSamples, NoPost,
          PointerRet(out_regs'))

\* pub fn display_string(st: &str)
display_string ==
    \E st \in CallerBufs :
        /\ PointerCall("display_string", st)
        /\ UNCHANGED DriveObs

\* pub fn buffered_keyboard_input(st: &str)
buffered_keyboard_input ==
    \E st \in CallerBufs :
        /\ PointerCall("buffered_keyboard_input", st)
        /\ UNCHANGED DriveObs

\* pub fn open_file(fcb: &[u8; 36])
open_file ==
    \E fcb \in CallerBufs :
        /\ PointerCall("open_file", fcb)
        /\ UNCHANGED DriveObs

\* pub fn close_file(fcb: &[u8; 36])
close_file ==
    \E fcb \in CallerBufs :
        /\ PointerCall("close_file", fcb)
        /\ UNCHANGED DriveObs

\* pub fn find_first_file(fcb: &[u8; 36])
find_first_file ==
    \E fcb \in CallerBufs :
        /\ PointerCall("find_first_file", fcb)
        /\ UNCHANGED DriveObs

\* pub fn find_next_file(fcb: &[u8; 36])
find_next_file ==
    \E fcb \in CallerBufs :
        /\ PointerCall("find_next_file", fcb)
        /\ UNCHANGED DriveObs

\* pub fn delete_file(fcb: &[u8; 36])
delete_file ==
    \E fcb \in CallerBufs :
        /\ PointerCall("delete_file", fcb)
        /\ UNCHANGED DriveObs

\* pub fn sequential_read(previously_opened_fcb: &[u8; 36])
sequential_read ==
    \E previously_opened_fcb \in CallerBufs :
        /\ PointerCall("sequential_read", previously_opened_fcb)
        /\ UNCHANGED DriveObs

\* pub fn sequential_write(previously_opened_fcb: &[u8; 36])
sequential_write ==
    \E previously_opened_fcb \in CallerBufs :
        /\ PointerCall("sequential_write", previously_opened_fcb)
        /\ UNCHANGED DriveObs

\* pub fn create_or_truncate_file(unopened_fcb: &[u8; 36])
create_or_truncate_file ==
    \E unopened_fcb \in CallerBufs :
        /\ PointerCall("create_or_truncate_file", unopened_fcb)
        /\ UNCHANGED DriveObs

\* pub fn rename_file(special_fcb: &[u8; 36])
rename_file ==
    \E special_fcb \in CallerBufs :
        /\ PointerCall("rename_file", special_fcb)
        /\ UNCHANGED DriveObs

\* pub fn set_disk_transfer_address(dta: [u8; 43])
set_disk_transfer_address ==
    \E dta \in CallerBufs : \E place \in ValuePlaces(dta) :
        /\ Issue("set_disk_transfer_address", << dta >>,
                 PointerArg("set_disk_transfer_address", place),
                 ByteSamples, NoPost, PointerRet(out_regs'))
        /\ UNCHANGED DriveObs

\* ------------------------------------------------------ terminate wrappers
\* pub fn program_terminate(psp_address: u8)
program_terminate_in(psp_address) ==
    [ah |-> Selector("program_terminate"), dl |-> psp_address]

TerminateRet(regs) == Unit

program_terminate ==
    \E psp_address \in ByteSamples :
        /\ Issue("program_terminate", << psp_address >>,
                 program_terminate_in(psp_address), ByteSamples, NoPost,
                 TerminateRet(out_regs'))
        /\ UNCHANGED DriveObs

\* pub fn terminate_and_stay_resident(): DL is bound to ch, a name the
\* function does not declare, so its content is not determined.
terminate_and_stay_resident_in(ch) ==
    [ah |-> Selector("terminate_and_stay_resident"), dl |-> ch]

terminate_and_stay_resident ==
    \E ch \in ByteSamples :
        /\ Issue("terminate_and_stay_resident", << >>,
                 terminate_and_stay_resident_in(ch), ByteSamples, NoPost,
                 TerminateRet(out_regs'))
        /\ UNCHANGED DriveObs

\* Faulty variant: selector 4Dh (get_program_return_code), which returns.
terminate_with_return_code_in_4D(ch) == [ah |-> 77, dl |-> ch]

\* pub fn terminate_with_return_code(): DL as above.
terminate_with_return_code_in(ch) ==
    [ah |-> Selector("terminate_with_return_code"), dl |-> ch]

terminate_with_return_code ==
    \E ch \in ByteSamples :
        /\ Issue("terminate_with_return_code", << >>,
                 terminate_with_return_code_in(ch), ByteSamples, NoPost,
                 TerminateRet(out_regs'))
        /\ UNCHANGED DriveObs

\* ------------------------------------------------ allocation-info wrappers
\* pub fn get_allocation_info_for_default_drive() -> Option<DriveAllocationInfo>
get_allocation_info_for_default_drive_ret(regs) ==
    IF regs.al = 255 THEN None
    ELSE Some(AllocInfo(regs.al, regs.bx, regs.cx, regs.dx))

get_allocation_info_for_default_drive ==
    /\ Issue("get_allocation_info_for_default_drive", << >>,
             [ah |-> Selector("get_allocation_info_for_default_drive")],
             Byte, NoPost,
             get_allocation_info_for_default_drive_ret(out_regs'))
    /\ UNCHANGED DriveObs

\* pub fn get_allocation_info_for_specified_drive(drive_code: DriveLetter)
\*     -> Option<DriveAllocationInfo>
get_allocation_info_for_specified_drive_in(drive_code) ==
    [ah |-> Selector("get_allocation_info_for_specified_drive"),
     dl |-> DriveLetterAsU8(drive_code)]

\* Faulty variant: CX and DX exchanged between the last two fields.
get_allocation_info_for_specified_drive_ret_swapped(regs) ==
    IF regs.al = 255 THEN None
    ELSE Some(AllocInfo(regs.al, regs.bx, regs.dx, regs.cx))

get_allocation_info_for_specified_drive_ret(regs) ==
    IF regs.al = 255 THEN None
    ELSE Some(AllocInfo(regs.al, regs.bx, regs.cx, regs.dx))

get_allocation_info_for_specified_drive ==
    \E drive_code \in DriveLetters :
        /\ Issue("get_allocation_info_for_specified_drive", << drive_code >>,
                 get_allocation_info_for_specified_drive_in(drive_code),
                 Byte, NoPost,
             get_allocation_info_for_specified_drive_ret(out_regs'))
        /\ UNCHANGED DriveObs

\* ------------------------------------------------------------ pure decoding
\* DriveLetter::from(value) applied to a raw byte, outside any service call.
drive_letter_from ==
    \E value \in Byte :
        /\ pc = "ready"
        /\ pc' = "returned"
        /\ call' = [name |-> "DriveLetter::from", args |-> << value >>]
        /\ ret' = Drive(DriveLetterFrom(value))
        /\ UNCHANGED << default_drive, kbd, os_dta, in_regs, out_regs,
                        last_set, queries >>

\* ------------------------------------------------------------ specifications
\* A session of the program: any sequence of the wrappers.
Next ==
    \/ Resume
    \/ KeyPress
    \/ set_default_drive
    \/ get_default_drive
    \/ character_input
    \/ character_output
    \/ direct_console_io
    \/ direct_console_input_without_echo
    \/ console_input_without_echo
    \/ get_input_status
    \/ flush_input_buffer_and_input
    \/ display_string
    \/ buffered_keyboard_input
    \/ open_file
    \/ close_file
    \/ find_first_file
    \/ find_next_file
    \/ delete_file
    \/ sequential_read
    \/ sequential_write
    \/ create_or_truncate_file
    \/ rename_file
    \/ set_disk_transfer_address
    \/ program_terminate
    \/ terminate_and_stay_resident
    \/ terminate_with_return_code

Spec == Init /\ [][Next]_vars

\* The allocation-info queries, with every byte the service can leave in AL.
NextAlloc ==
    \/ Resume
    \/ get_allocation_info_for_default_drive
    \/ get_allocation_info_for_specified_drive

SpecAlloc == Init /\ [][NextAlloc]_vars

\* Flush-and-input, with every byte the service can leave in AL.
flush_input_buffer_and_input_any ==
    \E inp \in InputFunctions :
        /\ FlushCall(inp, Byte)
        /\ UNCHANGED DriveObs

NextFlush ==
    \/ Resume
    \/ KeyPress
    \/ flush_input_buffer_and_input_any

SpecFlush == Init /\ [][NextFlush]_vars

\* DriveLetter::from(d as u8): a drive letter encoded as set_default_drive
\* and get_allocation_info_for_specified_drive encode it, then decoded.  The
\* call record keeps the letter and the byte it was encoded to.
drive_letter_from_as_u8 ==
    \E d \in DriveLetters :
        /\ pc = "ready"
        /\ pc' = "returned"
        /\ call' = [name |-> "DriveLetter::from(as u8)",
                    args |-> << d, DriveLetterAsU8(d) >>]
        /\ ret' = Drive(DriveLetterFrom(DriveLetterAsU8(d)))
        /\ UNCHANGED << default_drive, kbd, os_dta, in_regs, out_regs,
                        last_set, queries >>

\* The decoder on every raw byte, and on the encoding of every letter.
NextDecode ==
    \/ Resume
    \/ drive_letter_from
    \/ drive_letter_from_as_u8

SpecDecode == Init /\ [][NextDecode]_vars

\* ===================================================================== claims
AllocCalls ==
    { "get_allocation_info_for_default_drive",
      "get_allocation_info_for_specified_drive" }

\* C1: both allocation-info wrappers return None when AL is FFh after the
\* interrupt, whatever BX, CX and DX hold and whatever drive code was passed;
\* for any other AL they return Some, with sector_num = AL, fat_id_addr = BX,
\* sector_size = CX and number_of_clusters = DX, each at its full width.
C1_AllocationInfoSentinel ==
    call.name \in AllocCalls =>
        /\ out_regs.al = 255 => ret = None
        /\ out_regs.al # 255 =>
              /\ ret.tag = "Some"
              /\ ret.val.sector_num = out_regs.al
              /\ ret.val.fat_id_addr = out_regs.bx
              /\ ret.val.sector_size = out_regs.cx
              /\ ret.val.number_of_clusters = out_regs.dx

\* A valid answer for drive Z: with word-sized CX and 8-bit DX.
C1_Witness ==
    /\ call = [name |-> "get_allocation_info_for_specified_drive",
               args |-> << "Z" >>]
    /\ in_regs.dl = 25
    /\ out_regs = [al |-> 254, bx |-> 513, cx |-> 7, dx |-> 65535]
    /\ ret = Some(AllocInfo(254, 513, 7, 65535))

\* C2: DriveLetter::from decodes every byte: b in 0..25 gives the letter at
\* alphabetic position b, every byte in 26..255 gives Unknown.
C2_DecodeTotal ==
    call.name = "DriveLetter::from" =>
        LET b == call.args[1] IN
            /\ ret.tag = "DriveLetter"
            /\ b \in 0..25 =>
                  (ret.val = DriveLetter[b + 1] /\ ret.val # "Unknown")
            /\ b \in 26..255 => ret.val = "Unknown"

C2_Witness ==
    /\ call = [name |-> "DriveLetter::from", args |-> << 25 >>]
    /\ ret = Drive("Z")

\* C3: flush_input_buffer_and_input returns None for the
\* BufferedKeyboardInput selector whatever AL holds after the interrupt, and
\* Some(AL) for each of the other four selectors.
C3_FlushSelector ==
    call.name = "flush_input_buffer_and_input" =>
        IF call.args[1] = "BufferedKeyboardInput"
        THEN ret = None
        ELSE ret = Some(out_regs.al)

C3_Witness ==
    /\ call = [name |-> "flush_input_buffer_and_input",
               args |-> << "CharacterInput" >>]
    /\ in_regs.al = 1
    /\ out_regs.al = 200
    /\ ret = Some(200)

\* C4: for a console-input request (DL = FFh) the boolean direct_console_io
\* returns equals the zero flag as the interrupt left it: true when no
\* character was ready, false when one was (and is the returned byte).
C4_BoolIsZeroFlag ==
    (call.name = "direct_console_io" /\ in_regs.dl = 255) =>
        ret.snd = (out_regs.zf = 1)

\* C5: after set_default_drive(X), get_default_drive() reports X, for the
\* service that stores the code it gets in DL and reports it in AL.
C5_SetThenGet ==
    (call.name = "get_default_drive" /\ last_set # << >>) =>
        ret = Drive(last_set[1])

C5_Witness ==
    /\ call.name = "get_default_drive"
    /\ last_set = << "Q" >>
    /\ Len(queries) = 1
    /\ ret = Drive("Q")

\* C6: once a terminate wrapper has issued its interrupt control does not
\* come back: the record of that call is never replaced by a later call or
\* by the caller going on.
C6_TerminateIsFinal ==
    [][call.name \in TerminateCalls =>
          (call' = call /\ pc = "terminated" /\ pc' = "terminated")]_vars

C6_Witness ==
    /\ call.name = "terminate_with_return_code"
    /\ in_regs.ah = 76
    /\ pc = "terminated"
    /\ ret = NoReturn

\* C7: every pointer-passing wrapper puts the address of the caller's own
\* buffer into DX, so the address registered as disk transfer address is a
\* buffer of the caller.
PointerCalls ==
    FcbCalls \cup
    { "display_string", "buffered_keyboard_input", "set_disk_transfer_address" }

C7_CallerAddressForwarded ==
    /\ call.name \in PointerCalls => in_regs.dx = call.args[1]
    /\ os_dta # << >> => os_dta[1] \in CallerBufs

\* C8: character_input returns the character the service leaves in AL, as
\* one u8; character_output sends the caller's character in DL.
C8_CharacterInOut ==
    /\ call.name = "character_input" => ret = U8(out_regs.al)
    /\ call.name = "character_output" =>
          (call.args # << >> /\ in_regs.dl = call.args[1])

\* C9: two get_default_drive() calls with no set_default_drive between them
\* return the same DriveLetter.
C9_QueryIdempotent ==
    Len(queries) = 2 => queries[1] = queries[2]

C9_Witness ==
    /\ call.name = "get_default_drive"
    /\ queries = << "Q", "Q" >>
    /\ ret = Drive("Q")

\* C10: set_default_drive makes the drive the default and returns the
\* number of logical drives the service reports in AL.
C10_SetReturnsDriveCount ==
    call.name = "set_default_drive" =>
        /\ default_drive = DriveLetterAsU8(call.args[1])
        /\ ret = U8(out_regs.al)

\* C11: while an input character is waiting, every get_input_status call
\* returns the true status (FFh) and leaves the character waiting; the
\* character stops waiting only through a call of one of the wrappers that
\* take it from the input buffer.
\* A step in which the wrapper fn is called.
Calls(fn) == pc = "ready" /\ pc' # "ready" /\ call'.name = fn

\* A step after which the keys q waiting before it are no longer all there.
Taken(q) == Len(kbd') < Len(q) \/ SubSeq(kbd', 1, Len(q)) # q

StatusHolds ==
    (kbd # << >> /\ Calls("get_input_status")) =>
        (ret' = U8(255) /\ kbd' = kbd)

TakenOnlyBy(wrappers) ==
    (kbd # << >> /\ Taken(kbd)) => \E fn \in wrappers : Calls(fn)

\* Functions 1, 6, 7, 8 and 0Ah.
ReadingCalls ==
    { "character_input", "direct_console_io",
      "direct_console_input_without_echo", "console_input_without_echo",
      "buffered_keyboard_input" }

C12_EncodeDecodeIdentity ==
    call.name = "DriveLetter::from(as u8)" =>
        LET d == call.args[1]
            byte == call.args[2]
        IN  /\ ret = Drive(d)
            /\ d = "A" => byte = 0
            /\ d = "Z" => byte = 25
            /\ d = "Unknown" => byte = 26
            /\ d # "Unknown" => (byte \in 0..25 /\ DriveLetter[byte + 1] = d)

C12_Witness ==
    /\ call = [name |-> "DriveLetter::from(as u8)",
               args |-> << "Unknown", 26 >>]
    /\ ret = Drive("Unknown")

====
